---- MODULE Spec2Model ----
(***************************************************************************)
(* ReduxActions (library/src/scripts/state/ReduxActions.ts): the action    *)
(* creators and the dispatchApi request lifecycle, as a state machine.     *)
(*                                                                         *)
(* JavaScript runs each synchronous segment to completion, so one action   *)
(* of the model is one such segment of dispatchApi:                        *)
(*   Call            lines 179-189, up to the await                        *)
(*   SettleFulfilled / SettleRejected                                      *)
(*                   the HTTP client's promise settles (the environment)   *)
(*   ResumeFulfilled lines 189-191 (and 192-195 when dispatch throws)      *)
(*   ResumeRejected  lines 192-195                                         *)
(* The dispatch function and the HTTP client are collaborators handed to   *)
(* the constructor (line 148): what the client's promise settles with and  *)
(* whether a dispatch returns or throws are choices of the environment.    *)
(*                                                                         *)
(* AttachmentLoading (library/src/scripts/styles/bodyStyles.ts, lines      *)
(* 69-128) is modelled beside it: its state.progress (0 on construction,   *)
(* lines 70-72) and its three lifecycle methods, one action each.          *)
(***************************************************************************)
EXTENDS Integers, Sequences, FiniteSets, TLC

VARIABLES
    pc,          \* per call: "idle", "awaiting" (suspended at line 189), "done"
    args,        \* per call: the arguments dispatchApi was called with
    meta,        \* per call: the local `meta` after lines 179-182
    http,        \* per call: the promise returned by the HTTP client
    result,      \* per call: the promise returned by dispatchApi
    events,      \* the calls made to the collaborators, in order: actions handed
                 \* to this.dispatch, invocations of the HTTP client, values
                 \* handed to logError
    created,     \* createAction: the last call's arguments and its return value
    attachment   \* AttachmentLoading (styles/bodyStyles.ts): whether it is mounted
                 \* and listens to its emitter, its state.progress, and the
                 \* last progress event it handled

vars == <<pc, args, meta, http, result, events, created, attachment>>

----------------------------------------------------------------------------
(* Bounds and input domains *)

NumCalls == 2

Calls == 1..NumCalls

\* type RequestType = "get" | "post" | "put" | "delete" | "patch"
RequestType == {"get", "post", "put", "delete", "patch"}

EmptyObject == [k \in {} |-> 0]

\* the optional `meta` argument left out (undefined), or given as an object
NoMeta == [given |-> FALSE, val |-> EmptyObject]
MetaOf(obj) == [given |-> TRUE, val |-> obj]

\* the arguments of a dispatchApi call: one call per request method, `params`
\* with one key and with two, `meta` left out, given with a key of `params`
\* and a key of its own, given with a key of its own only, and given empty
CallInputs ==
    {[requestType |-> "get",    endpoint |-> "/things",   params |-> [page |-> 2],            meta |-> NoMeta],
     [requestType |-> "post",   endpoint |-> "/things",   params |-> [page |-> 1, sort |-> 3], meta |-> MetaOf([page |-> 9, tag |-> 7])],
     [requestType |-> "put",    endpoint |-> "/things/1", params |-> [page |-> 1, sort |-> 3], meta |-> NoMeta],
     [requestType |-> "delete", endpoint |-> "/things/1", params |-> [page |-> 2],            meta |-> MetaOf(EmptyObject)],
     [requestType |-> "patch",  endpoint |-> "/things/1", params |-> [page |-> 2],            meta |-> MetaOf([tag |-> 7])]}

\* JavaScript values
Undefined == [kind |-> "undefined"]
Null == [kind |-> "null"]

Number(n) == [kind |-> "number", n |-> n]
NaN == [kind |-> "NaN"]
Infinity == [kind |-> "Infinity"]

\* what the HTTP client's promise fulfills with (AxiosResponse)
Responses == {[kind |-> "response", data |-> "things", status |-> 200]}

\* what the HTTP client's promise rejects with: an error carrying the server's
\* response, or a raw transport error without one
ServerBody == [kind |-> "body", message |-> "bad"]
Rejections ==
    {[kind |-> "error", message |-> "Request failed", response |-> [data |-> ServerBody, status |-> 500]],
     [kind |-> "error", message |-> "Network Error"]}

\* what a throwing dispatch throws
DispatchError == [kind |-> "error", message |-> "dispatch threw"]

\* the largest number among the payloads handed to createAction
MaxNumber == 11

\* payloads handed to createAction: left out or undefined, null, numbers,
\* strings, booleans and objects, the falsy ones among them
Payloads ==
    {Undefined, Null}
    \cup {[kind |-> "number", n |-> n] : n \in 0..MaxNumber}
    \cup {[kind |-> "string", s |-> str] : str \in {"", "text"}}
    \cup {[kind |-> "boolean", b |-> b] : b \in BOOLEAN}
    \cup {[kind |-> "object", fields |-> f] : f \in {EmptyObject, [page |-> 2]}}

ActionTypes == {"GET_THING_REQUEST", "GET_THING_RESPONSE", "GET_THING_ERROR", "LOGIN", "LOGOUT", ""}

\* the largest `loaded` and `total` of a ProgressEvent handed to
\* AttachmentLoading; both are non-negative integers, and total is 0 when the
\* length is not computable
MaxLoaded == 12
MaxTotal == 10

\* the action types of the triple handed to dispatchApi
ThingTypes == [request |-> "GET_THING_REQUEST", response |-> "GET_THING_RESPONSE", error |-> "GET_THING_ERROR"]

----------------------------------------------------------------------------
(* Pure functions *)

\* obj[key] in JavaScript: undefined when the key is absent
Get(obj, key) == IF key \in DOMAIN obj THEN obj[key] ELSE Undefined

\* a value JavaScript's conditional takes for false
Falsy(v) ==
    \/ v \in {Undefined, Null}
    \/ v.kind = "number" /\ v.n = 0
    \/ v.kind = "string" /\ v.s = ""
    \/ v.kind = "boolean" /\ ~v.b

\* createAction testing `payload ? ... : ...` instead of `payload === undefined`
createAction_Truthy(type, payload) ==
    IF Falsy(payload) THEN [type |-> type] ELSE [type |-> type, payload |-> payload]

\* createAction(type, payload?): a payload left out is undefined
createAction(type, payload) ==
    IF payload = Undefined THEN [type |-> type] ELSE [type |-> type, payload |-> payload]

createApiRequestAction(type, m) == [type |-> type, meta |-> m]

\* the action createApiErrorAction returns; its logError call is LogError below
createApiErrorAction(type, m, error) == [type |-> type, meta |-> m, payload |-> error]

createApiResponseAction(type, m, payload) == [type |-> type, meta |-> m, payload |-> payload]


\* the triple generateApiActionCreators returns for ThingTypes, handed to
\* dispatchApi as `actionCreators`
actionCreators_request(m) == createApiRequestAction(ThingTypes.request, m)
actionCreators_response(response, m) == createApiResponseAction(ThingTypes.response, m, response)
actionCreators_error(error, m) == createApiErrorAction(ThingTypes.error, m, error)

\* the spread in the other order, {...meta, ...params}: params wins a shared key
MergeMeta_ParamsWin(params, metaArg) ==
    LET m == IF metaArg.given THEN metaArg.val ELSE [k \in {} |-> 0]
    IN  [k \in DOMAIN params \cup DOMAIN m |-> IF k \in DOMAIN params THEN params[k] ELSE m[k]]

\* meta = {...params, ...meta}, with meta = {} when the argument is undefined
MergeMeta(params, metaArg) ==
    LET m == IF metaArg.given THEN metaArg.val ELSE EmptyObject
    IN  [k \in DOMAIN params \cup DOMAIN m |-> IF k \in DOMAIN m THEN m[k] ELSE params[k]]

\* params sent as the body whatever the method
ApiInvocation_AlwaysBody(requestType, endpoint, params) ==
    [fn |-> requestType, endpoint |-> endpoint, arg |-> [kind |-> "body", data |-> params]]

\* the client invocation of lines 185-188
ApiInvocation(requestType, endpoint, params) ==
    IF requestType = "get"
    THEN [fn |-> "get", endpoint |-> endpoint, arg |-> [kind |-> "config", params |-> params]]
    ELSE [fn |-> requestType, endpoint |-> endpoint, arg |-> [kind |-> "body", data |-> params]]

\* the raw rejection forwarded whether or not it carries a response
ExtractError_Raw(axiosError) == axiosError

\* axiosError.response ? axiosError.response.data : axiosError
ExtractError(axiosError) ==
    IF "response" \in DOMAIN axiosError THEN axiosError.response.data ELSE axiosError

\* Math.round(x * 100) with x = loaded / total in JavaScript numbers: 0 / 0 is
\* NaN and stays NaN, a positive number over 0 is Infinity and stays Infinity,
\* and Math.round rounds a half up
RoundedPercentage(loaded, total) ==
    IF total = 0
    THEN IF loaded = 0 THEN NaN ELSE Infinity
    ELSE Number((200 * loaded + total) \div (2 * total))

----------------------------------------------------------------------------
(* State machine *)

NoEvent == [given |-> FALSE]
NoArgs == [requestType |-> "none"]
NoHttp == [state |-> "none"]
Pending == [state |-> "pending"]

Init ==
    /\ pc = [c \in Calls |-> "idle"]
    /\ args = [c \in Calls |-> NoArgs]
    /\ meta = [c \in Calls |-> EmptyObject]
    /\ http = [c \in Calls |-> NoHttp]
    /\ result = [c \in Calls |-> NoHttp]
    /\ events = <<>>
    /\ created = [called |-> FALSE]
    /\ attachment = [mounted |-> FALSE, listening |-> FALSE, progress |-> Number(0), event |-> NoEvent]

\* this.dispatch(action): the action reaches the store; dispatch returns or throws
Dispatch(c, action, throws) ==
    <<[kind |-> "dispatch", call |-> c, action |-> action, threw |-> throws]>>

\* logError(error), called by createApiErrorAction (line 114)
LogError(c, error) == <<[kind |-> "log", call |-> c, error |-> error]>>

\* this.api.get(...) / this.api[requestType](...)
InvokeApi(c, requestType, endpoint, params) ==
    <<[kind |-> "api", call |-> c] @@ ApiInvocation(requestType, endpoint, params)>>

\* lines 179-189: merge, dispatch the request action, invoke the client, await.
\* Call c is the c-th invocation of dispatchApi.
Call(c) ==
    /\ pc[c] = "idle"
    /\ \A d \in 1..(c - 1) : pc[d] # "idle"
    /\ \E input \in CallInputs, throws \in BOOLEAN :
        LET m == MergeMeta(input.params, input.meta)
            request == Dispatch(c, actionCreators_request(m), throws)
        IN
        /\ args' = [args EXCEPT ![c] = input]
        /\ meta' = [meta EXCEPT ![c] = m]
        /\ IF throws
           THEN \* line 183 is outside the try: the exception rejects the returned promise
                /\ events' = events \o request
                /\ result' = [result EXCEPT ![c] = [state |-> "rejected", value |-> DispatchError]]
                /\ pc' = [pc EXCEPT ![c] = "done"]
                /\ UNCHANGED http
           ELSE /\ events' = events \o request
                                \o InvokeApi(c, input.requestType, input.endpoint, input.params)
                /\ http' = [http EXCEPT ![c] = Pending]
                /\ result' = [result EXCEPT ![c] = Pending]
                /\ pc' = [pc EXCEPT ![c] = "awaiting"]
    /\ UNCHANGED <<created, attachment>>

\* the HTTP client's promise fulfills
SettleFulfilled(c) ==
    /\ http[c].state = "pending"
    /\ \E r \in Responses : http' = [http EXCEPT ![c] = [state |-> "fulfilled", value |-> r]]
    /\ UNCHANGED <<pc, args, meta, result, events, created, attachment>>

\* the HTTP client's promise rejects
SettleRejected(c) ==
    /\ http[c].state = "pending"
    /\ \E e \in Rejections : http' = [http EXCEPT ![c] = [state |-> "rejected", value |-> e]]
    /\ UNCHANGED <<pc, args, meta, result, events, created, attachment>>

\* lines 192-195, entered with `axiosError` caught after the events `before`:
\* extract, build the error action (which logs), dispatch it; the function then
\* ends without a return value
Catch(c, axiosError, before) ==
    \E throws \in BOOLEAN :
        LET error == ExtractError(axiosError) IN
        /\ events' = before \o LogError(c, error)
                            \o Dispatch(c, actionCreators_error(error, meta[c]), throws)
        /\ result' = [result EXCEPT ![c] =
                        IF throws THEN [state |-> "rejected", value |-> DispatchError]
                                  ELSE [state |-> "resolved", value |-> Undefined]]

\* lines 189-191: the await returns the response; an exception thrown by the
\* dispatch of line 190 is inside the try and enters the catch block
ResumeFulfilled(c) ==
    /\ pc[c] = "awaiting"
    /\ http[c].state = "fulfilled"
    /\ \E throws \in BOOLEAN :
        LET response == http[c].value
            handed == events \o Dispatch(c, actionCreators_response(response, meta[c]), throws)
        IN  IF throws
            THEN Catch(c, DispatchError, handed)
            ELSE /\ events' = handed
                 /\ result' = [result EXCEPT ![c] = [state |-> "resolved", value |-> response]]
    /\ pc' = [pc EXCEPT ![c] = "done"]
    /\ UNCHANGED <<args, meta, http, created, attachment>>

\* a catch block that swallows the rejection without dispatching
ResumeRejected_Silent(c) ==
    /\ pc[c] = "awaiting"
    /\ http[c].state = "rejected"
    /\ result' = [result EXCEPT ![c] = [state |-> "resolved", value |-> Undefined]]
    /\ pc' = [pc EXCEPT ![c] = "done"]
    /\ UNCHANGED <<args, meta, http, events, created, attachment>>

\* a catch block that invokes the client once more before it gives up
ResumeRejected_Retry(c) ==
    /\ pc[c] = "awaiting"
    /\ http[c].state = "rejected"
    /\ IF Len(SelectSeq(events, LAMBDA e : e.kind = "api" /\ e.call = c)) < 2
       THEN /\ events' = events \o InvokeApi(c, args[c].requestType, args[c].endpoint, args[c].params)
            /\ http' = [http EXCEPT ![c] = Pending]
            /\ UNCHANGED <<pc, result>>
       ELSE /\ Catch(c, http[c].value, events)
            /\ pc' = [pc EXCEPT ![c] = "done"]
            /\ UNCHANGED http
    /\ UNCHANGED <<args, meta, created, attachment>>

\* line 189 throws the rejection into the catch block
ResumeRejected(c) ==
    /\ pc[c] = "awaiting"
    /\ http[c].state = "rejected"
    /\ Catch(c, http[c].value, events)
    /\ pc' = [pc EXCEPT ![c] = "done"]
    /\ UNCHANGED <<args, meta, http, created, attachment>>

Next ==
    \E c \in Calls :
        \/ Call(c)
        \/ SettleFulfilled(c)
        \/ SettleRejected(c)
        \/ ResumeFulfilled(c)
        \/ ResumeRejected(c)

Spec == Init /\ [][Next]_vars

\* a call of the static createAction(type, payload?)
CreateActionCall ==
    /\ \E type \in ActionTypes, payload \in Payloads :
        created' = [called |-> TRUE, type |-> type, payload |-> payload,
                    action |-> createAction(type, payload)]
    /\ UNCHANGED <<pc, args, meta, http, result, events, attachment>>

\* createAction is static and reads no state: its calls alone
SpecCreateAction == Init /\ [][CreateActionCall]_vars

----------------------------------------------------------------------------
(* AttachmentLoading *)

\* componentDidMount: the listener is added when the progressEventEmitter prop
\* is a ProgressEventEmitter
componentDidMount ==
    /\ ~attachment.mounted
    /\ \E hasEmitter \in BOOLEAN :
        attachment' = [attachment EXCEPT !.mounted = TRUE, !.listening = hasEmitter]
    /\ UNCHANGED <<pc, args, meta, http, result, events, created>>

\* componentWillUnmount: the listener is removed
componentWillUnmount ==
    /\ attachment.mounted
    /\ attachment' = [attachment EXCEPT !.mounted = FALSE, !.listening = FALSE]
    /\ UNCHANGED <<pc, args, meta, http, result, events, created>>

\* onProgressEvent: the emitter hands an event to the listener
onProgressEvent ==
    /\ attachment.listening
    /\ \E loaded \in 0..MaxLoaded, total \in 0..MaxTotal :
        attachment' = [attachment EXCEPT
                          !.progress = RoundedPercentage(loaded, total),
                          !.event = [given |-> TRUE, loaded |-> loaded, total |-> total]]
    /\ UNCHANGED <<pc, args, meta, http, result, events, created>>

NextAttachment == componentDidMount \/ componentWillUnmount \/ onProgressEvent

\* AttachmentLoading shares no state with ReduxActions: its steps alone
SpecAttachment == Init /\ [][NextAttachment]_vars

----------------------------------------------------------------------------
(* What the collaborators saw *)

\* the actions call c handed to this.dispatch, in order
ActionsOf(c) == SelectSeq(events, LAMBDA e : e.kind = "dispatch" /\ e.call = c)

\* the types of a sequence of dispatched actions, in order
Types(acts) == [i \in DOMAIN acts |-> acts[i].action.type]

\* how many actions of the given type are among them
Count(acts, type) == Cardinality({i \in 1..Len(acts) : acts[i].action.type = type})

Terminals(acts) == Count(acts, ThingTypes.response) + Count(acts, ThingTypes.error)

\* one of these dispatches threw
Threw(acts) == \E i \in 1..Len(acts) : acts[i].threw

\* every call call c made to a collaborator, in order
EventsOf(c) == SelectSeq(events, LAMBDA e : e.call = c)

\* the invocations of the HTTP client by call c
ApiCallsOf(c) == SelectSeq(events, LAMBDA e : e.kind = "api" /\ e.call = c)

Settled(c) == http[c].state \in {"fulfilled", "rejected"}

----------------------------------------------------------------------------
(* Claims *)

\* C1: under any interleaving of the calls in flight, each call dispatches
\* exactly one request action, first, and once its HTTP call has settled and
\* the call has resumed exactly one terminal action: a response action or an
\* error action, never both and never two of the same.
C1_OneRequestOneTerminal ==
    \A c \in Calls :
        LET acts == ActionsOf(c) IN
        /\ pc[c] # "idle" =>
            /\ Count(acts, ThingTypes.request) = 1
            /\ acts[1].action.type = ThingTypes.request
        /\ Terminals(acts) <= 1
        /\ (pc[c] = "done" /\ Settled(c)) => Terminals(acts) = 1

\* C1 holds of the calls none of whose dispatches threw
C1_UnlessDispatchThrew ==
    \A c \in Calls :
        LET acts == ActionsOf(c) IN
        ~Threw(acts) =>
            /\ pc[c] # "idle" =>
                /\ Count(acts, ThingTypes.request) = 1
                /\ acts[1].action.type = ThingTypes.request
            /\ Terminals(acts) <= 1
            /\ (pc[c] = "done" /\ Settled(c)) => Terminals(acts) = 1

\* C2: a call whose HTTP call succeeded has dispatched, when it is done,
\* exactly a request action and then a response action, no error action, and
\* the two carry the same meta.
C2_SuccessSequence ==
    \A c \in Calls : (pc[c] = "done" /\ http[c].state = "fulfilled") =>
        LET acts == ActionsOf(c) IN
        /\ Types(acts) = <<ThingTypes.request, ThingTypes.response>>
        /\ acts[1].action.meta = acts[2].action.meta

\* C2 holds of the calls whose dispatch of the response action returned
C2_UnlessDispatchThrew ==
    \A c \in Calls : (pc[c] = "done" /\ http[c].state = "fulfilled") =>
        LET acts == ActionsOf(c) IN
        ~Threw(acts) =>
            /\ Types(acts) = <<ThingTypes.request, ThingTypes.response>>
            /\ acts[1].action.meta = acts[2].action.meta

\* C3: a call whose HTTP call failed has dispatched exactly a request action
\* while it is suspended, and exactly a request action and then an error
\* action when it is done; never a response action.
C3_FailureSequence ==
    \A c \in Calls : http[c].state = "rejected" =>
        \A types \in {Types(ActionsOf(c))} :
            /\ pc[c] = "awaiting" => types = <<ThingTypes.request>>
            /\ pc[c] = "done" => types = <<ThingTypes.request, ThingTypes.error>>

\* a call whose HTTP call failed is done
C3_Witness ==
    \E c \in Calls : pc[c] = "done" /\ http[c].state = "rejected"

\* C4: the promise dispatchApi returns never rejects, and when the HTTP call
\* failed it resolves with undefined.
C4_NeverRejects ==
    \A c \in Calls :
        /\ result[c].state # "rejected"
        /\ (pc[c] = "done" /\ http[c].state = "rejected") =>
            result[c] = [state |-> "resolved", value |-> Undefined]

\* C4 holds of the calls none of whose dispatches threw
C4_UnlessDispatchThrew ==
    \A c \in Calls : ~Threw(ActionsOf(c)) =>
        /\ result[c].state # "rejected"
        /\ (pc[c] = "done" /\ http[c].state = "rejected") =>
            result[c] = [state |-> "resolved", value |-> Undefined]

\* C5: when the HTTP call succeeded, dispatchApi resolves with the client's
\* response object, and that object is the payload of the response action the
\* call dispatched.
C5_ResolvesWithResponse ==
    \A c \in Calls : (pc[c] = "done" /\ http[c].state = "fulfilled") =>
        LET acts == ActionsOf(c) IN
        /\ result[c] = [state |-> "resolved", value |-> http[c].value]
        /\ \E i \in 1..Len(acts) :
            /\ acts[i].action.type = ThingTypes.response
            /\ acts[i].action.payload = http[c].value

\* C5 holds of the calls whose dispatch of the response action returned
C5_UnlessDispatchThrew ==
    \A c \in Calls : (pc[c] = "done" /\ http[c].state = "fulfilled") =>
        LET acts == ActionsOf(c) IN
        ~Threw(acts) =>
            /\ result[c] = [state |-> "resolved", value |-> http[c].value]
            /\ \E i \in 1..Len(acts) :
                /\ acts[i].action.type = ThingTypes.response
                /\ acts[i].action.payload = http[c].value

\* C6: when the HTTP call failed, the payload of the error action is the data
\* of the rejection's response when the rejection carries a response, and the
\* rejection value itself when it carries none.
C6_ErrorPayload ==
    \A c \in Calls : (pc[c] = "done" /\ http[c].state = "rejected") =>
        \A rejection \in {http[c].value}, acts \in {ActionsOf(c)} :
            \A last \in {acts[Len(acts)].action} :
                /\ last.type = ThingTypes.error
                /\ "response" \in DOMAIN rejection => last.payload = rejection.response.data
                /\ "response" \notin DOMAIN rejection => last.payload = rejection

\* one failed call whose rejection carried a response and one whose rejection
\* carried none are done
C6_Witness ==
    \E c, d \in Calls :
        /\ pc[c] = "done" /\ http[c].state = "rejected" /\ "response" \in DOMAIN http[c].value
        /\ pc[d] = "done" /\ http[d].state = "rejected" /\ "response" \notin DOMAIN http[d].value

\* C7: for "get" the client's get is called with the endpoint and an options
\* object holding params under the query-parameters key; for every other
\* method the client function of that method is called with the endpoint and
\* params as the body.
C7_ParamsPlacement ==
    \A i \in 1..Len(events) : events[i].kind = "api" =>
        LET e == events[i]
            in == args[e.call]
        IN  /\ e.fn = in.requestType
            /\ e.endpoint = in.endpoint
            /\ in.requestType = "get" => e.arg = [kind |-> "config", params |-> in.params]
            /\ in.requestType # "get" => e.arg = [kind |-> "body", data |-> in.params]

\* the client was invoked for a "get" call and for a call of another method
C7_Witness ==
    \E c, d \in Calls :
        /\ Len(ApiCallsOf(c)) > 0 /\ args[c].requestType = "get"
        /\ Len(ApiCallsOf(d)) > 0 /\ args[d].requestType \in RequestType \ {"get"}

\* C8: every action of one call carries the same meta: the keys of params and
\* of the meta argument together, a key of both with the meta argument's
\* value; with no meta argument it is params.
C8_MetaMerge ==
    \A c \in Calls : \A acts \in {ActionsOf(c)} : Len(acts) > 0 =>
        \A m \in {acts[1].action.meta}, params \in {args[c].params}, supplied \in {args[c].meta.val} :
            /\ \A i \in 2..Len(acts) : acts[i].action.meta = m
            /\ args[c].meta.given =>
                /\ DOMAIN m = DOMAIN params \cup DOMAIN supplied
                /\ \A k \in DOMAIN supplied : m[k] = supplied[k]
                /\ \A k \in DOMAIN params \ DOMAIN supplied : m[k] = params[k]
            /\ ~args[c].meta.given => m = params

\* a call given a meta that shares a key with params, and a call given no
\* meta, have each dispatched a terminal action
C8_Witness ==
    \E c, d \in Calls :
        /\ Terminals(ActionsOf(c)) > 0 /\ args[c].meta.given
        /\ \E k \in DOMAIN args[c].params \cap DOMAIN args[c].meta.val :
             args[c].params[k] # args[c].meta.val[k]
        /\ Terminals(ActionsOf(d)) > 0 /\ ~args[d].meta.given

\* C9: createAction(type) returns an action whose only key is type, and
\* createAction(type, p) an action of that type whose payload is p.
C9_CreateAction ==
    created.called =>
        /\ created.action.type = created.type
        /\ Get(created.action, "payload") = created.payload
        /\ created.payload = Undefined => DOMAIN created.action = {"type"}
        /\ created.payload # Undefined => DOMAIN created.action = {"type", "payload"}

\* createAction was called with a falsy payload that is not undefined
C9_Witness ==
    created.called /\ Falsy(created.payload) /\ created.payload # Undefined

Logs(own) == {i \in 1..Len(own) : own[i].kind = "log"}

\* C11: a call whose HTTP call failed has, when it is done, logged the
\* extracted error exactly once, before it dispatched the error action; a
\* call whose HTTP call succeeded logs nothing.
C11_LoggedOnceOnFailureOnly ==
    \A c \in Calls : \A own \in {EventsOf(c)} :
        /\ (pc[c] = "done" /\ http[c].state = "rejected") =>
            /\ Cardinality(Logs(own)) = 1
            /\ \A i \in Logs(own) :
                /\ i < Len(own)
                /\ own[Len(own)].kind = "dispatch"
                /\ own[Len(own)].action.type = ThingTypes.error
                /\ own[Len(own)].action.payload = own[i].error
        /\ http[c].state = "fulfilled" => Logs(own) = {}

\* C11 holds of the calls whose dispatch of the response action returned
C11_UnlessDispatchThrew ==
    \A c \in Calls : \A own \in {EventsOf(c)} :
        /\ (pc[c] = "done" /\ http[c].state = "rejected") =>
            /\ Cardinality(Logs(own)) = 1
            /\ \A i \in Logs(own) :
                /\ i < Len(own)
                /\ own[Len(own)].kind = "dispatch"
                /\ own[Len(own)].action.type = ThingTypes.error
                /\ own[Len(own)].action.payload = own[i].error
        /\ (http[c].state = "fulfilled" /\ Logs(own) # {}) =>
            \E j \in 1..Len(own) :
                /\ own[j].kind = "dispatch" /\ own[j].threw
                /\ own[j].action.type = ThingTypes.response

\* the dispatch of the response action of call c threw
ResponseDispatchThrew(own) ==
    \E j \in 1..Len(own) :
        own[j].kind = "dispatch" /\ own[j].threw /\ own[j].action.type = ThingTypes.response

\* C12: when dispatch throws on the response action of a successful HTTP
\* call, an error action with the same meta and the thrown value as payload
\* is dispatched after the response action, and the call resolves with
\* undefined.
C12_ResponseDispatchThrows ==
    \A c \in Calls : \A own \in {EventsOf(c)} :
        (pc[c] = "done" /\ http[c].state = "fulfilled" /\ ResponseDispatchThrew(own)) =>
            \A n \in {Len(own)} :
                /\ own[n].kind = "dispatch"
                /\ own[n].action.type = ThingTypes.error
                /\ own[n].action.payload = DispatchError
                /\ \E j \in 1..(n - 1) :
                    /\ own[j].kind = "dispatch"
                    /\ own[j].action.type = ThingTypes.response
                    /\ own[j].action.meta = own[n].action.meta
                /\ result[c] = [state |-> "resolved", value |-> Undefined]

\* C12 holds of the calls whose dispatch of the error action returned; when
\* that dispatch throws too, the promise rejects with what it threw
C12_UnlessErrorDispatchThrew ==
    \A c \in Calls : \A own \in {EventsOf(c)} :
        (pc[c] = "done" /\ http[c].state = "fulfilled" /\ ResponseDispatchThrew(own)) =>
            \A n \in {Len(own)} :
                /\ own[n].kind = "dispatch"
                /\ own[n].action.type = ThingTypes.error
                /\ own[n].action.payload = DispatchError
                /\ \E j \in 1..(n - 1) :
                    /\ own[j].kind = "dispatch"
                    /\ own[j].action.type = ThingTypes.response
                    /\ own[j].action.meta = own[n].action.meta
                /\ ~own[n].threw => result[c] = [state |-> "resolved", value |-> Undefined]
                /\ own[n].threw => result[c] = [state |-> "rejected", value |-> DispatchError]

\* C13: state.progress is a number from 0 to 100 in every reachable state: 0
\* on creation, and after a progress event the rounded percentage
\* loaded / total * 100 of the latest event.
C13_ProgressWithin0To100 ==
    /\ attachment.progress.kind = "number"
    /\ attachment.progress.n \in 0..100
    /\ ~attachment.event.given => attachment.progress.n = 0
    /\ attachment.event.given =>
        \A n \in {attachment.progress.n}, l \in {attachment.event.loaded}, t \in {attachment.event.total} :
            2 * n * t <= 200 * l + t /\ 200 * l + t < 2 * (n + 1) * t

\* C13 holds of the events with 0 < total and loaded <= total
C13_UnlessOutOfRangeEvent ==
    /\ ~attachment.event.given => attachment.progress = Number(0)
    /\ (attachment.event.given /\ 0 < attachment.event.total
            /\ attachment.event.loaded <= attachment.event.total) =>
        /\ attachment.progress.kind = "number"
        /\ attachment.progress.n \in 0..100
        /\ \A n \in {attachment.progress.n}, l \in {attachment.event.loaded}, t \in {attachment.event.total} :
            2 * n * t <= 200 * l + t /\ 200 * l + t < 2 * (n + 1) * t

====
